---- MODULE Spec2Model ----
(***************************************************************************)
(* Model of addr_gen_wb (src/wb_block.py): the register / bit-field /      *)
(* block data model, the address allocator wb_block.analyze and the        *)
(* emitter wb_block.gen_vhdl; and of src/include.py: handle_includes.      *)
(*                                                                         *)
(* Python objects are records; an attribute that has not been assigned yet *)
(* is a field missing from the record, so that reading it is the           *)
(* AttributeError of the program.  XML attribute values are strings of     *)
(* decimal digits and int() parses them.  Generated text is a sequence of  *)
(* lines, a line a sequence of tokens ending with "\n" when terminated.    *)
(***************************************************************************)
EXTENDS Integers, Sequences, FiniteSets, TLC

VARIABLES
    blocks,     \* wb_block.py:124  the registry: block name -> wb_block object
    exc,        \* the exception the last operation raised, "none" when it returned
    op,         \* history: the last operation and its argument
    requests,   \* history: the number of explicit analyze() requests so far
    n_analyze,  \* history: per block name, how often the body of analyze() ran
    emitted,    \* history: per block name, the artifacts each gen_vhdl() wrote
    files,      \* the file system: file name -> text written
    reg,        \* a wb_reg object constructed on its own (register-level runs)
    x_rec,      \* the aggregate value handed to t_<name>2stlv
    x_stlv,     \* the flat word t_<name>2stlv returned
    y_rec,      \* the aggregate value stlv2t_<name> returned for x_stlv
    last_calls, \* history: the blocks whose analyze() the last request entered, in order
    docs,       \* the documents on disk: file path -> contents
    incl        \* what the last handle_includes() returned

vars == <<blocks, exc, op, requests, n_analyze, emitted, files, reg, x_rec, x_stlv, y_rec,
          last_calls, docs, incl>>

-----------------------------------------------------------------------------
(* Generic helpers *)

\* dict.get(key, default) / Element.get(key, default)
Get(el, key, default) == IF key \in DOMAIN el THEN el[key] ELSE default

\* obj.attr = value (creates the attribute when it does not exist yet)
SetAttr(obj, key, value) == (key :> value) @@ obj

HasAttr(obj, key) == key \in DOMAIN obj

\* python int() of a string of decimal digits (a sequence of digits, most
\* significant first)
RECURSIVE int(_)
int(s) == IF Len(s) = 0 THEN 0 ELSE 10 * int(SubSeq(s, 1, Len(s) - 1)) + s[Len(s)]

RECURSIVE Pow2(_)
Pow2(n) == IF n <= 0 THEN 1 ELSE 2 * Pow2(n - 1)

\* python int.bit_length(): the number of bits of abs(n)
RECURSIVE bit_length(_)
bit_length(n) == IF n < 0 THEN bit_length(-n)
                 ELSE IF n = 0 THEN 0 ELSE 1 + bit_length(n \div 2)

Digit == <<"0", "1", "2", "3", "4", "5", "6", "7", "8", "9",
           "a", "b", "c", "d", "e", "f">>

\* the digits of n >= 0 to the given base, most significant first
RECURSIVE Digits(_, _)
Digits(n, base) == IF n < base THEN Digit[n + 1]
                   ELSE Digits(n \div base, base) \o Digit[(n % base) + 1]

\* the number of digits of n >= 0 to the given base
RECURSIVE NDigits(_, _)
NDigits(n, base) == IF n < base THEN 1 ELSE 1 + NDigits(n \div base, base)

\* python n*c for a string c
RECURSIVE Repeat(_, _)
Repeat(c, n) == IF n <= 0 THEN ""
                ELSE IF n = 1 THEN c
                ELSE Repeat(c, n \div 2) \o Repeat(c, n - (n \div 2))

\* one statement after another: v is computed first, F continues with it
AndThen(v, F(_)) == CHOOSE r \in {F(x) : x \in {v}} : TRUE

\* python str(n), n >= 0
str(n) == Digits(n, 10)

\* python format(n, "032b"): binary digits, zero-padded to 32 of them
format032b(n) == Repeat("0", 32 - NDigits(n, 2)) \o Digits(n, 2)

\* python hex(n)
hex(n) == "0x" \o Digits(n, 16)

-----------------------------------------------------------------------------
(* wb_field, wb_reg, wb_block constructors *)

wb_field_msb(lsb, size) == lsb + size - 1

\* wb_field.__init__(fl, lsb)
wb_field(fl, lsb) ==
    LET size == int(fl.width)
    IN  [name |-> fl.name,
         lsb  |-> lsb,
         size |-> size,
         msb  |-> wb_field_msb(lsb, size),
         type |-> Get(fl, "type", "std_logic_vector")]

FieldLimit == 32

wb_reg_overflow_ge(free_bit) == free_bit >= FieldLimit

\* the test of wb_block.py:157
wb_reg_overflow(free_bit) == free_bit > FieldLimit

wb_reg_next_bit_one(free_bit, fdef) == free_bit + 1

\* self.free_bit += fdef.size
wb_reg_next_bit(free_bit, fdef) == free_bit + fdef.size

\* the loop of wb_reg.__init__ over el.findall('field'); r is the register
\* being built, k the index of the next field
RECURSIVE wb_reg_fields(_, _, _)
wb_reg_fields(r, fls, k) ==
    IF k > Len(fls) THEN [exc |-> "none", val |-> r]
    ELSE LET fdef == wb_field(fls[k], r.free_bit)
             fb   == wb_reg_next_bit(r.free_bit, fdef)
         IN  IF wb_reg_overflow(fb)
             THEN [exc |-> "Exception", val |-> [r EXCEPT !.free_bit = fb]]
             ELSE wb_reg_fields([r EXCEPT !.free_bit = fb,
                                          !.fields = Append(@, fdef)], fls, k + 1)

wb_reg_size_one(el) == 1

wb_reg_size(el) == int(Get(el, "reps", <<1>>))

\* wb_reg.__init__(el, adr)
wb_reg(el, adr) ==
    wb_reg_fields([regtype  |-> el.tag,
                   type     |-> Get(el, "type", "std_logic_vector"),
                   base     |-> adr,
                   size     |-> wb_reg_size(el),
                   name     |-> el.name,
                   ack      |-> int(Get(el, "ack", <<0>>)),
                   stb      |-> int(Get(el, "stb", <<0>>)),
                   fields   |-> <<>>,
                   free_bit |-> 0],
                  el.fields, 1)

FirstRegAddr == 2

\* the loop of wb_block.__init__ over the children of el
RECURSIVE wb_block_children(_, _, _)
wb_block_children(b, ch, k) ==
    IF k > Len(ch) THEN [exc |-> "none", val |-> b]
    ELSE LET child == ch[k]
         IN  IF child.tag \in {"creg", "sreg"}
             THEN LET r == wb_reg(child, b.free_reg_addr)
                  IN  IF r.exc # "none" THEN [exc |-> r.exc, val |-> b]
                      ELSE wb_block_children(
                             [b EXCEPT !.free_reg_addr = @ + r.val.size,
                                       !.regs = Append(@, r.val)], ch, k + 1)
             ELSE IF child.tag = "subblock"
             THEN wb_block_children([b EXCEPT !.subblks = Append(@, child)], ch, k + 1)
             \* "Unknown node in block: "+el.name : an Element has no attribute name
             ELSE [exc |-> "AttributeError", val |-> b]

\* wb_block.__init__(el)
wb_block(el) ==
    wb_block_children([templ_dict    |-> [k \in {} |-> <<>>],
                       name          |-> el.name,
                       areas         |-> <<>>,
                       regs          |-> <<>>,
                       free_reg_addr |-> FirstRegAddr,
                       subblks       |-> <<>>],
                      el.children, 1)

-----------------------------------------------------------------------------
(* wb_area and the allocator wb_block.analyze *)

\* wb_area.__init__(size, name, obj, reps); obj is the referenced block (its
\* key in the registry) or "None"
wb_area(size, name, obj, reps) ==
    [name |-> name, size |-> size, obj |-> obj, adr |-> 0, mask |-> 0,
     total_size |-> 0, reps |-> reps]

\* wb_area.sort_key
sort_key(ar) == ar.size

insert_before_equal(r, x) ==
    LET n == Cardinality({i \in 1..Len(r) : sort_key(r[i]) > sort_key(x)})
    IN  SubSeq(r, 1, n) \o <<x>> \o SubSeq(r, n + 1, Len(r))

\* one step of the stable sort: x goes behind every element of the sorted
\* list r whose key is at least its own
insert_desc(r, x) ==
    LET n == Cardinality({i \in 1..Len(r) : sort_key(r[i]) >= sort_key(x)})
    IN  SubSeq(r, 1, n) \o <<x>> \o SubSeq(r, n + 1, Len(r))

RECURSIVE sort_from(_, _, _)
sort_from(r, s, k) == IF k > Len(s) THEN r ELSE sort_from(insert_desc(r, s[k]), s, k + 1)

areas_unsorted(s) == s

\* self.areas.sort(key=wb_area.sort_key, reverse=True): stable, descending
areas_sort(s) == sort_from(<<>>, s, 1)

\* ar.adr_bits = (ar.size-1).bit_length()
area_adr_bits(ar) == bit_length(ar.size - 1)

next_base_raw(cur_base, ar) == cur_base + ar.size

\* cur_base += ar.total_size
next_base(cur_base, ar) == cur_base + ar.total_size

\* the loop "for ar in self.areas" of analyze: places the areas from index k
\* on, b is the block object, cur_base the running cursor
RECURSIVE place_areas(_, _, _)
place_areas(b, k, cur_base) ==
    IF k > Len(b.areas) THEN [blk |-> b, cur_base |-> cur_base]
    ELSE LET ar == b.areas[k]
             b1 == IF ar.obj = "None" THEN SetAttr(b, "reg_base", cur_base) ELSE b
             set_total(ar2) == [ar2 EXCEPT !.total_size = Pow2(ar2.adr_bits)]
             set_bits(ar1) == set_total(SetAttr(ar1, "adr_bits", area_adr_bits(ar1)))
             advance(ar3) == place_areas([b1 EXCEPT !.areas[k] = ar3], k + 1,
                                         next_base(cur_base, ar3))
         IN  advance(set_bits([ar EXCEPT !.adr = cur_base]))

block_adr_bits_plain(addr_size) == bit_length(addr_size)

\* self.adr_bits = (self.addr_size-1).bit_length()
block_adr_bits(addr_size) == bit_length(addr_size - 1)

\* wb_block.py:349-364: sort, place, and round the block's own span
allocate(b) ==
    LET round_up(b2) == [b2 EXCEPT !.addr_size = Pow2(b2.adr_bits)]
        set_bits(b1) == round_up(SetAttr(b1, "adr_bits", block_adr_bits(b1.addr_size)))
        set_size(placed) == set_bits(SetAttr(placed.blk, "addr_size", placed.cur_base))
    IN  set_size(place_areas([b EXCEPT !.areas = areas_sort(@)], 1, 0))

\* history: the area appended to list s gets the next creation number
Created(s, ar) == SetAttr(ar, "seq", Len(s) + 1)

not_analyzed_twice(bl) == Len(bl.areas) <= 1

\* "if len(bl.areas)==0": the sub-block was not analyzed yet
not_analyzed_yet(bl) == Len(bl.areas) = 0

\* wb_block.analyze.  h is the heap: h.blocks the registry with its objects,
\* h.exc the exception being raised ("none": none), h.calls the blocks whose
\* analyze() was entered, in order.  scan_subblks is the loop over
\* self.subblks from index k on.
RECURSIVE analyze(_, _)
RECURSIVE scan_subblks(_, _, _)
analyze(h, self) ==
    LET finish(h2) == IF h2.exc # "none" THEN h2
                      ELSE [h2 EXCEPT !.blocks[self] = allocate(@)]
    IN  finish(scan_subblks(
                 [h EXCEPT !.blocks[self].areas =
                              Append(@, Created(@, wb_area(h.blocks[self].free_reg_addr,
                                                           "int_regs", "None", 1))),
                           !.calls = Append(@, self)],
                 self, 1))

scan_subblks(h, self, k) ==
    IF k > Len(h.blocks[self].subblks) THEN h
    ELSE LET sblk == h.blocks[self].subblks[k]
             type == sblk.type
         IN  IF type \notin DOMAIN h.blocks THEN [h EXCEPT !.exc = "KeyError"]
             ELSE LET reps == int(Get(sblk, "reps", <<1>>))
                      add_area(ha) ==
                          IF ha.exc # "none" THEN ha
                          ELSE IF ~HasAttr(ha.blocks[type], "addr_size")
                          THEN [ha EXCEPT !.exc = "AttributeError"]
                          ELSE scan_subblks(
                                 [ha EXCEPT !.blocks[self].areas =
                                     Append(@, Created(@, wb_area(ha.blocks[type].addr_size * reps,
                                                                  Get(sblk, "name", "None"),
                                                                  type, reps)))],
                                 self, k + 1)
                  IN  add_area(IF not_analyzed_yet(h.blocks[type]) THEN analyze(h, type) ELSE h)

-----------------------------------------------------------------------------
(* Input documents *)

\* XML elements: <creg>/<sreg> with optional reps and <field> children,
\* <field>, <subblock>, <block>
RegEl(tag, name, fls) == [tag |-> tag, name |-> name, fields |-> fls]
RegVecEl(tag, name, reps, fls) == [tag |-> tag, name |-> name, reps |-> reps, fields |-> fls]
FieldEl(name, width) == [name |-> name, width |-> width]
BlockEl(name, children) == [name |-> name, children |-> children]

\* the block types of a document, in document order; a block refers to
\* the types declared after it
Names == <<"top", "mid", "leaf">>
NameSet == {Names[i] : i \in 1..Len(Names)}
Later(n) == {Names[j] : j \in {j \in 1..Len(Names) : \E i \in 1..(j - 1) : Names[i] = n}}

MaxSubs == 2
MaxAnalyze == 2

\* the reps attribute of a <subblock>: absent, or "3"
SubRepsAttrs == {<<>>, <<3>>}
SubNames == <<"sa", "sb", "sc", "sd">>

SubEl(k, type, reps) ==
    IF reps = <<>> THEN [tag |-> "subblock", type |-> type, name |-> SubNames[k]]
    ELSE [tag |-> "subblock", type |-> type, name |-> SubNames[k], reps |-> reps]

\* the sequences of at most n <subblock> children referring to types of T
RECURSIVE SubLists(_, _)
SubLists(T, n) ==
    IF n = 0 THEN {<<>>}
    ELSE LET shorter == SubLists(T, n - 1)
         IN  shorter \cup {Append(s, SubEl(Len(s) + 1, t, r)) :
                             s \in {x \in shorter : Len(x) = n - 1},
                             t \in T, r \in SubRepsAttrs}

\* the register lists a block type is declared with: none (local raw size
\* 2), or, by type: six register addresses (raw size 8), seven (raw size 9),
\* the two registers of the specification's scenario A (raw size 4)
RegLists(n) ==
    { <<>>,
      CASE n = "top"  -> <<RegVecEl("creg", "cfg", <<4>>, <<>>),
                           RegVecEl("sreg", "stat", <<2>>, <<>>)>>
        [] n = "mid"  -> <<RegVecEl("sreg", "buf", <<7>>, <<>>)>>
        [] n = "leaf" -> <<RegEl("creg", "ctrl", <<>>), RegEl("sreg", "status", <<>>)>> }

BlockEls(n) == {BlockEl(n, regs \o subs) : regs \in RegLists(n), subs \in SubLists(Later(n), MaxSubs)}

\* the registry the main script builds: blocks[name] = wb_block(el) for every
\* <block> of the document
Registry(doc) == [n \in NameSet |-> wb_block(doc[n]).val]

Documents == {[top |-> t, mid |-> m, leaf |-> l] :
                 t \in BlockEls("top"), m \in BlockEls("mid"), l \in BlockEls("leaf")}

NoReg == [name |-> "None"]

NoResult == [exc |-> "not called"]

\* nothing was called yet
Quiet ==
    /\ exc = "none"
    /\ op = <<"init">>
    /\ requests = 0
    /\ n_analyze = [n \in NameSet |-> 0]
    /\ emitted = [n \in NameSet |-> <<>>]
    /\ files = [f \in {} |-> ""]
    /\ reg = NoReg
    /\ x_rec = <<>>
    /\ x_stlv = <<>>
    /\ y_rec = <<>>
    /\ last_calls = <<>>
    /\ incl = NoResult

\* nothing was called yet and no document is on disk
Idle ==
    /\ Quiet
    /\ docs = [f \in {} |-> <<>>]

Init ==
    /\ blocks \in {Registry(doc) : doc \in Documents}
    /\ Idle

-----------------------------------------------------------------------------
(* Operations *)

Count(s, x) == Cardinality({i \in 1..Len(s) : s[i] = x})

\* an explicit request blocks[b].analyze()
Analyze(b) ==
    /\ b \in DOMAIN blocks
    /\ requests < MaxAnalyze
    /\ \E h \in {analyze([blocks |-> blocks, exc |-> "none", calls |-> <<>>], b)} :
           /\ blocks' = h.blocks
           /\ exc' = h.exc
           /\ n_analyze' = [n \in NameSet |-> n_analyze[n] + Count(h.calls, n)]
           /\ last_calls' = h.calls
    /\ op' = <<"analyze", b>>
    /\ requests' = requests + 1
    /\ UNCHANGED <<emitted, files, reg, x_rec, x_stlv, y_rec, docs, incl>>

Next == \E b \in NameSet : Analyze(b)

Spec == Init /\ [][Next]_vars

-----------------------------------------------------------------------------
(* Properties of the allocator *)

\* the block has been analyzed: analyze() ran to its end at least once
Analyzed(n) == n \in DOMAIN blocks /\ HasAttr(blocks[n], "addr_size")

\* the smallest of p, 2p, 4p, ... that is at least n
RECURSIVE DoubleUpTo(_, _)
DoubleUpTo(p, n) == IF p >= n THEN p ELSE DoubleUpTo(2 * p, n)

\* 2^ceil(log2(raw_size)): the smallest power of two that is at least raw
RoundedSize(raw) == DoubleUpTo(1, raw)

\* the sum of the rounded sizes of the areas s[1..k]
RECURSIVE SumRounded(_, _)
SumRounded(s, k) == IF k = 0 THEN 0 ELSE SumRounded(s, k - 1) + RoundedSize(s[k].size)

Cursor(n) == SumRounded(blocks[n].areas, Len(blocks[n].areas))

\* the ranges [adr, adr + rounded size) of two areas do not intersect
Disjoint(a, b) == \/ a.adr + RoundedSize(a.size) <= b.adr
                  \/ b.adr + RoundedSize(b.size) <= a.adr

\* C1: alignment invariant.  In every analyzed block the base address of
\* every area is a multiple of the area's rounded size 2^ceil(log2(raw_size)).
C1_Alignment ==
    \A n \in NameSet : Analyzed(n) =>
        \A i \in 1..Len(blocks[n].areas) :
            LET ar == blocks[n].areas[i]
            IN  ar.adr % RoundedSize(ar.size) = 0

\* an analyzed block holding, at a base address above 0, an area whose raw
\* size is no power of two, behind at least two other areas
C1_Witness ==
    \E n \in NameSet : Analyzed(n) /\
        \E i \in 3..Len(blocks[n].areas) :
            LET ar == blocks[n].areas[i]
            IN  ar.adr > 0 /\ RoundedSize(ar.size) # ar.size

\* C2: no-overlap invariant for areas.  In every analyzed block the ranges
\* [base_address, base_address + rounded_size) of two distinct areas are
\* disjoint.
C2_NoOverlap ==
    \A n \in NameSet : Analyzed(n) =>
        \A i, j \in 1..Len(blocks[n].areas) :
            i # j => Disjoint(blocks[n].areas[i], blocks[n].areas[j])

\* an analyzed block with three areas, one of them a sub-block vector whose
\* raw size is smaller than its rounded size, followed by another area
C2_Witness ==
    \E n \in NameSet : Analyzed(n) /\ Len(blocks[n].areas) >= 3 /\
        \E i \in 1..(Len(blocks[n].areas) - 1) :
            LET ar == blocks[n].areas[i]
            IN  ar.reps > 1 /\ ar.size < RoundedSize(ar.size)

\* the areas of block n are the local-register area followed by one area per
\* declared sub-block reference, numbered in that order at their creation
InDeclarationOrder(n) ==
    LET b == blocks[n]
    IN  /\ Len(b.areas) = 1 + Len(b.subblks)
        /\ \A i \in 1..Len(b.areas) :
              LET ar == b.areas[i]
              IN  IF ar.seq = 1 THEN ar.obj = "None" /\ ar.size = b.free_reg_addr
                  ELSE /\ ar.seq \in 2..(1 + Len(b.subblks))
                       /\ ar.obj = b.subblks[ar.seq - 1].type
                       /\ ar.name = b.subblks[ar.seq - 1].name

\* scenario B of the specification: local raw size 8 and two reps=1
\* sub-blocks of rounded size 16 and 4, declared in either order
ScenarioB(n) ==
    LET s == blocks[n].areas
    IN  /\ Len(s) = 3
        /\ {s[i].size : i \in 1..3} = {16, 8, 4}
        /\ \A i \in 1..3 : s[i].reps = 1 /\ (s[i].obj = "None" <=> s[i].size = 8)

\* C3: placement order.  The areas of an analyzed block stand in descending
\* raw_size order, areas of equal raw_size in the order of their creation
\* (which for a block analyzed once is the declaration order: the
\* local-register area, then the sub-block references as declared), and the
\* base address of each is the sum of the rounded sizes of the areas before
\* it; scenario B gives bases 0, 16, 24 and a final cursor of 28.
C3_PlacementOrder ==
    \A n \in NameSet : Analyzed(n) =>
        LET s == blocks[n].areas
        IN  /\ \A i, j \in 1..Len(s) : i < j =>
                  /\ s[i].size >= s[j].size
                  /\ s[i].size = s[j].size => s[i].seq < s[j].seq
            /\ \A i \in 1..Len(s) : s[i].adr = SumRounded(s, i - 1)
            /\ n_analyze[n] = 1 => InDeclarationOrder(n)
            /\ ScenarioB(n) => /\ <<s[1].size, s[2].size, s[3].size>> = <<16, 8, 4>>
                               /\ <<s[1].adr, s[2].adr, s[3].adr>> = <<0, 16, 24>>
                               /\ Cursor(n) = 28

\* scenario B has been analyzed with the size-4 sub-block declared before
\* the size-16 one, and some analyzed block holds two areas of equal raw size
C3_Witness ==
    /\ \E n \in NameSet : Analyzed(n) /\ ScenarioB(n) /\ n_analyze[n] = 1
                          /\ blocks[n].areas[3].seq < blocks[n].areas[1].seq
    /\ \E n \in NameSet : Analyzed(n) /\
          \E i \in 1..(Len(blocks[n].areas) - 1) :
              blocks[n].areas[i].size = blocks[n].areas[i + 1].size

\* scenario A of the specification: no sub-blocks, a control register
\* "ctrl" and a status register "status" without fields
ScenarioA(n) ==
    LET b == blocks[n]
    IN  /\ Len(b.subblks) = 0 /\ Len(b.regs) = 2 /\ Len(b.areas) = 1
        /\ b.regs[1].name = "ctrl" /\ b.regs[1].regtype = "creg" /\ b.regs[1].size = 1
        /\ b.regs[2].name = "status" /\ b.regs[2].regtype = "sreg" /\ b.regs[2].size = 1

\* C4: block span.  After analyze() the block's total_address_size
\* (addr_size) is the smallest power of two that is at least the final
\* cursor, the sum of the rounded sizes of all its areas; adr_bits is its
\* exponent; every area range lies inside [0, addr_size).  Scenario A gives
\* raw size 4, address bits 2, rounded size 4, base address 0 and a total
\* address size of 4.
C4_BlockSpan ==
    \A n \in NameSet : Analyzed(n) =>
        LET b == blocks[n]
        IN  /\ b.addr_size = RoundedSize(Cursor(n))
            /\ b.addr_size = Pow2(b.adr_bits)
            /\ \A i \in 1..Len(b.areas) :
                  b.areas[i].adr >= 0 /\
                  b.areas[i].adr + RoundedSize(b.areas[i].size) <= b.addr_size
            /\ ScenarioA(n) =>
                  /\ b.regs[1].base = 2 /\ b.regs[2].base = 3
                  /\ b.areas[1].size = 4 /\ b.areas[1].adr_bits = 2
                  /\ b.areas[1].total_size = 4 /\ b.areas[1].adr = 0
                  /\ b.addr_size = 4 /\ b.adr_bits = 2

\* scenario A has been analyzed, another analyzed block's cursor is a power
\* of two above 4 and a third's cursor is no power of two
C4_Witness ==
    /\ \E n \in NameSet : Analyzed(n) /\ ScenarioA(n)
    /\ \E n \in NameSet : Analyzed(n) /\ Len(blocks[n].areas) >= 2
                          /\ Cursor(n) = blocks[n].addr_size /\ Cursor(n) > 4
    /\ \E n \in NameSet : Analyzed(n) /\ Cursor(n) < blocks[n].addr_size

AreaBases(b) == [i \in 1..Len(b.areas) |-> <<b.areas[i].obj, b.areas[i].size, b.areas[i].adr>>]

\* C10: at-most-once analysis.  Over any sequence of analysis requests each
\* block is analyzed at most once, its area list is one local-register area
\* plus one area per declared sub-block reference, and once it has been
\* analyzed its areas, their base addresses and its total_address_size
\* never change again.
C10_AnalyzedAtMostOnce ==
    /\ [](\A n \in NameSet :
            /\ n_analyze[n] <= 1
            /\ Analyzed(n) => Len(blocks[n].areas) = 1 + Len(blocks[n].subblks))
    /\ [][\A n \in NameSet : Analyzed(n) =>
            /\ AreaBases(blocks'[n]) = AreaBases(blocks[n])
            /\ blocks'[n].addr_size = blocks[n].addr_size]_vars

-----------------------------------------------------------------------------
(* Block construction runs: wb_block(el) on bounded <block> elements *)

MaxChildren == 3

\* the children a <block> is built from: registers without and with fields
\* (field widths summing to 32 and to 33), with and without reps, a
\* <subblock> and a node of an unknown kind
BuildChildren ==
    { RegEl("creg", "ctrl", <<>>),
      RegVecEl("sreg", "stat", <<1, 2>>, <<>>),
      RegVecEl("creg", "cfg", <<2>>, <<FieldEl("lo", <<1, 6>>), FieldEl("hi", <<1, 6>>)>>),
      RegEl("sreg", "wide", <<FieldEl("w", <<3, 2>>), FieldEl("x", <<1>>)>>),
      RegEl("creg", "mix", <<FieldEl("a", <<1>>), FieldEl("b", <<1, 5>>),
                             FieldEl("c", <<1, 6>>)>>),
      RegVecEl("sreg", "over", <<3>>, <<FieldEl("p", <<1, 7>>), FieldEl("q", <<1, 6>>)>>),
      SubEl(1, "leaf", <<>>),
      [tag |-> "irq", name |-> "line"] }

RECURSIVE ChildLists(_)
ChildLists(n) ==
    IF n = 0 THEN {<<>>}
    ELSE LET shorter == ChildLists(n - 1)
         IN  shorter \cup {Append(s, c) : s \in {x \in shorter : Len(x) = n - 1},
                                          c \in BuildChildren}

BuildEls == {BlockEl("top", ch) : ch \in ChildLists(MaxChildren)}

InitBuild ==
    /\ blocks = [n \in {} |-> <<>>]
    /\ Idle

\* blocks[name] = wb_block(el): the registry gets the block when the
\* constructor returns, before any analysis; an exception of the constructor
\* ends the run
NewBlock(el) ==
    /\ el.name \notin DOMAIN blocks
    /\ requests = 0
    /\ exc = "none"
    /\ \E r \in {wb_block(el)} :
           /\ exc' = r.exc
           /\ blocks' = IF r.exc = "none"
                        THEN [n \in DOMAIN blocks \cup {el.name} |->
                                 IF n = el.name THEN r.val ELSE blocks[n]]
                        ELSE blocks
    /\ op' = <<"wb_block", el>>
    /\ UNCHANGED <<requests, n_analyze, emitted, files, reg, x_rec, x_stlv, y_rec, last_calls, docs, incl>>

NextBuild ==
    \/ \E el \in BuildEls : NewBlock(el)
    \/ \E b \in NameSet : Analyze(b)

SpecBuild == InitBuild /\ [][NextBuild]_vars

IsRegEl(c) == c.tag \in {"creg", "sreg"}

\* the <creg>/<sreg> children of el in declaration order
DeclaredRegs(el) == SelectSeq(el.children, IsRegEl)

\* the declared repeat count of a register element
DeclaredReps(c) == IF "reps" \in DOMAIN c THEN int(c.reps) ELSE 1

RECURSIVE SumSizes(_, _)
SumSizes(regs, k) == IF k = 0 THEN 0 ELSE SumSizes(regs, k - 1) + regs[k].size

RegRange(r) == r.base .. (r.base + r.size - 1)

\* C5: register address assignment at block construction.  The registers of
\* a block, control and status alike, get addresses in declaration order
\* from 2 on: a register's base is 2 plus the repeat counts of the registers
\* declared before it, a register declared with repeat count N has size N
\* and occupies [base, base+N), the ranges of two registers of a block are
\* disjoint, none holds the reserved addresses 0 and 1, and free_reg_addr
\* is 2 plus the sum of all repeat counts.
C5_RegisterAddresses ==
    /\ \A n \in DOMAIN blocks :
          LET b == blocks[n]
          IN  /\ \A i \in 1..Len(b.regs) :
                    /\ b.regs[i].base = 2 + SumSizes(b.regs, i - 1)
                    /\ RegRange(b.regs[i]) \cap {0, 1} = {}
                    /\ Cardinality(RegRange(b.regs[i])) = b.regs[i].size
              /\ \A i, j \in 1..Len(b.regs) :
                    i # j => RegRange(b.regs[i]) \cap RegRange(b.regs[j]) = {}
              /\ b.free_reg_addr = 2 + SumSizes(b.regs, Len(b.regs))
    /\ op[1] = "wb_block" /\ exc = "none" =>
          LET d == DeclaredRegs(op[2])
              b == blocks[op[2].name]
          IN  /\ Len(b.regs) = Len(d)
              /\ \A i \in 1..Len(d) :
                    /\ b.regs[i].size = DeclaredReps(d[i])
                    /\ b.regs[i].name = d[i].name
                    /\ b.regs[i].regtype = d[i].tag

\* a block was built from a register vector, a <subblock> and two more
\* registers, a control and a status register among them
C5_Witness ==
    /\ op[1] = "wb_block" /\ exc = "none"
    /\ LET ch == op[2].children
           b  == blocks[op[2].name]
       IN  /\ Len(ch) = 3 /\ Len(b.regs) = 3
           /\ b.regs[1].size > 1 /\ b.regs[2].size > 1
           /\ {b.regs[i].regtype : i \in 1..3} = {"creg", "sreg"}
           /\ b.free_reg_addr > 10

RECURSIVE WidthSum(_, _)
WidthSum(fls, k) == IF k = 0 THEN 0 ELSE WidthSum(fls, k - 1) + int(fls[k].width)

Overflows(c) == IsRegEl(c) /\ WidthSum(c.fields, Len(c.fields)) > 32
Known(c) == c.tag \in {"creg", "sreg", "subblock"}

\* C6: field-width bound.  Constructing a register whose declared field
\* widths sum to more than 32 bits fails with the configuration error, so
\* the owning block is not constructed (it never enters the registry, and
\* nothing is ever allocated for it); a block all of whose registers have
\* field widths summing to 32 bits or fewer is constructed, each register
\* with all its declared fields.
C6_FieldWidthBound ==
    /\ op[1] = "wb_block" =>
          LET ch == op[2].children
              n  == op[2].name
          IN  /\ (\E k \in 1..Len(ch) : Overflows(ch[k]) /\
                      \A j \in 1..(k - 1) : Known(ch[j]) /\ ~Overflows(ch[j]))
                   => exc = "Exception" /\ n \notin DOMAIN blocks
              /\ (\A k \in 1..Len(ch) : Known(ch[k]) /\ ~Overflows(ch[k]))
                   => /\ exc = "none" /\ n \in DOMAIN blocks
                      /\ LET d == DeclaredRegs(op[2])
                         IN  \A i \in 1..Len(d) :
                               /\ Len(blocks[n].regs[i].fields) = Len(d[i].fields)
                               /\ \A f \in 1..Len(d[i].fields) :
                                     /\ blocks[n].regs[i].fields[f].name = d[i].fields[f].name
                                     /\ blocks[n].regs[i].fields[f].size = int(d[i].fields[f].width)
    /\ \A n \in DOMAIN blocks : \A i \in 1..Len(blocks[n].regs) :
          blocks[n].regs[i].free_bit <= 32
    /\ \A n \in NameSet : n \notin DOMAIN blocks => n_analyze[n] = 0

\* the construction of a block failed at a register of 33 bits declared
\* behind a register of exactly 32 bits
C6_Witness ==
    /\ op[1] = "wb_block" /\ exc = "Exception" /\ blocks = [n \in {} |-> <<>>]
    /\ LET ch == op[2].children
       IN  /\ Len(ch) >= 2
           /\ IsRegEl(ch[1]) /\ WidthSum(ch[1].fields, Len(ch[1].fields)) = 32
           /\ IsRegEl(ch[2]) /\ WidthSum(ch[2].fields, Len(ch[2].fields)) = 33

-----------------------------------------------------------------------------
(* The conversion functions wb_reg.gen_vhdl generates for a register with  *)
(* fields.  A flat word is a std_logic_vector(31 downto 0): a function     *)
(* from the bit positions 0..31 to bits; the aggregate value is a record   *)
(* with one vector (size-1 downto 0) per field.                            *)

WordBits == 32

\* x(msb downto lsb), renumbered (msb-lsb downto 0)
Slice(x, msb, lsb) == [j \in 0..(msb - lsb) |-> x[lsb + j]]

\* res(msb downto lsb) := v
SliceAssign(res, msb, lsb, v) ==
    [i \in DOMAIN res |-> IF lsb <= i /\ i <= msb THEN v[i - lsb] ELSE res[i]]

\* function t_<name>2stlv: res := (others => '0'), then one slice
\* assignment per field, in declaration order
RECURSIVE rec2stlv_from(_, _, _, _)
rec2stlv_from(res, fields, x, k) ==
    IF k > Len(fields) THEN res
    ELSE rec2stlv_from(SliceAssign(res, fields[k].msb, fields[k].lsb, x[fields[k].name]),
                       fields, x, k + 1)

rec2stlv(r, x) == rec2stlv_from([i \in 0..(WordBits - 1) |-> 0], r.fields, x, 1)

\* function stlv2t_<name>: res.<field> := x(msb downto lsb) for every field
stlv2rec(r, x) ==
    [name \in {r.fields[k].name : k \in 1..Len(r.fields)} |->
        LET k == CHOOSE k \in 1..Len(r.fields) :
                    r.fields[k].name = name /\
                    \A j \in (k + 1)..Len(r.fields) : r.fields[j].name # name
        IN  Slice(x, r.fields[k].msb, r.fields[k].lsb)]

MaxFields == 2

\* the width attributes of the <field> elements
WidthAttrs == {<<1>>, <<3>>, <<1, 6>>, <<2, 8>>}
FieldNames == <<"fa", "fb", "fc", "fd">>

RECURSIVE FieldLists(_)
FieldLists(n) ==
    IF n = 0 THEN {<<>>}
    ELSE LET shorter == FieldLists(n - 1)
         IN  shorter \cup {Append(s, FieldEl(FieldNames[Len(s) + 1], w)) :
                             s \in {x \in shorter : Len(x) = n - 1}, w \in WidthAttrs}

RegEls == {RegEl(tag, "r", fls) : tag \in {"creg"}, fls \in FieldLists(MaxFields)}

\* the values of a vector (size-1 downto 0) tried: all zeros, all ones,
\* alternating bits, the top bit alone
Vectors(size) ==
    { [j \in 0..(size - 1) |-> 0], [j \in 0..(size - 1) |-> 1],
      [j \in 0..(size - 1) |-> j % 2],
      [j \in 0..(size - 1) |-> IF j = size - 1 THEN 1 ELSE 0] }

\* the aggregate values of the fields 1..k, one vector per field
RECURSIVE Aggregates(_, _)
Aggregates(fields, k) ==
    IF k = 0 THEN {[n \in {} |-> <<>>]}
    ELSE {[n \in DOMAIN a \cup {fields[k].name} |->
              IF n = fields[k].name THEN v ELSE a[n]] :
          a \in Aggregates(fields, k - 1), v \in Vectors(fields[k].size)}

InitReg ==
    /\ blocks = [n \in {} |-> <<>>]
    /\ Idle

\* reg = wb_reg(el, adr)
NewReg(el) ==
    /\ reg = NoReg
    /\ exc = "none"
    /\ \E r \in {wb_reg(el, FirstRegAddr)} :
           /\ exc' = r.exc
           /\ reg' = IF r.exc = "none" THEN r.val ELSE reg
    /\ op' = <<"wb_reg", el>>
    /\ UNCHANGED <<blocks, requests, n_analyze, emitted, files, x_rec, x_stlv, y_rec, last_calls, docs, incl>>

\* x_stlv := t_<name>2stlv(x)
Pack(x) ==
    /\ reg # NoReg
    /\ Len(reg.fields) > 0
    /\ x_rec' = x
    /\ x_stlv' = rec2stlv(reg, x)
    /\ y_rec' = <<>>
    /\ op' = <<"2stlv">>
    /\ UNCHANGED <<blocks, exc, requests, n_analyze, emitted, files, reg, last_calls, docs, incl>>

\* y_rec := stlv2t_<name>(x_stlv)
Unpack ==
    /\ op[1] = "2stlv"
    /\ y_rec' = stlv2rec(reg, x_stlv)
    /\ op' = <<"stlv2">>
    /\ UNCHANGED <<blocks, exc, requests, n_analyze, emitted, files, reg, x_rec, x_stlv, last_calls, docs, incl>>

NextReg ==
    \/ \E el \in RegEls : NewReg(el)
    \/ \E x \in (IF reg = NoReg THEN {} ELSE Aggregates(reg.fields, Len(reg.fields))) : Pack(x)
    \/ Unpack

SpecReg == InitReg /\ [][NextReg]_vars

BitRange(f) == f.lsb .. f.msb

RECURSIVE TotalWidth(_, _)
TotalWidth(fields, k) == IF k = 0 THEN 0 ELSE TotalWidth(fields, k - 1) + fields[k].size

\* C7: pack/unpack round trip.  The fields of a register occupy the
\* contiguous, pairwise disjoint bit ranges [lsb, msb] from bit 0 on in
\* declaration order; unpacking the flat word that packing an aggregate
\* value produced gives the same aggregate value; the packed word holds
\* every field's bits at its range and 0 in every bit above the declared
\* total width.
C7_RoundTrip ==
    reg # NoReg =>
        LET fs == reg.fields
        IN  /\ \A k \in 1..Len(fs) :
                  /\ fs[k].lsb = TotalWidth(fs, k - 1)
                  /\ fs[k].msb = fs[k].lsb + fs[k].size - 1
                  /\ fs[k].msb < WordBits
            /\ \A i, j \in 1..Len(fs) : i # j => BitRange(fs[i]) \cap BitRange(fs[j]) = {}
            /\ op[1] \in {"2stlv", "stlv2"} =>
                  /\ \A i \in 0..(WordBits - 1) :
                        i >= TotalWidth(fs, Len(fs)) => x_stlv[i] = 0
                  /\ \A k \in 1..Len(fs) : \A j \in 0..(fs[k].size - 1) :
                        x_stlv[fs[k].lsb + j] = x_rec[fs[k].name][j]
            /\ op[1] = "stlv2" => y_rec = x_rec

\* a value with ones in two fields, of a register narrower than the word,
\* has been packed and unpacked again
C7_Witness ==
    /\ reg # NoReg /\ op[1] = "stlv2"
    /\ Len(reg.fields) = 2 /\ reg.free_bit < WordBits /\ reg.fields[1].size > 1
    /\ \A k \in 1..2 : \A j \in 0..(reg.fields[k].size - 1) : x_rec[reg.fields[k].name][j] = 1

-----------------------------------------------------------------------------
(* The emitter: wb_block.add_templ, wb_reg.gen_vhdl, wb_block.gen_vhdl.    *)
(* A string is a string; a value handed to add_templ is the sequence of    *)
(* its lines (what re.findall(r'.*\n?', value)[:-1] yields), each with its *)
(* terminating "\n" when it has one.                                       *)

\* the text the loop of add_templ appends for the lines lo..hi of value:
\* every line that is not empty, behind indent spaces
RECURSIVE add_lines(_, _, _, _)
add_lines(lines, indent, lo, hi) ==
    IF lo > hi THEN ""
    ELSE IF lo = hi
    THEN (IF lines[lo] # "" THEN Repeat(" ", indent) \o lines[lo] ELSE "")
    ELSE LET mid == (lo + hi) \div 2
         IN  add_lines(lines, indent, lo, mid) \o add_lines(lines, indent, mid + 1, hi)

\* wb_block.add_templ(templ_key, value, indent) on the dictionary td
add_templ(td, templ_key, value, indent) ==
    [(IF templ_key \notin DOMAIN td THEN SetAttr(td, templ_key, "") ELSE td)
        EXCEPT ![templ_key] = @ \o add_lines(value, indent, 1, Len(value))]

\* the calls self.add_templ(key, value, indent) for the <<key, value, indent>>
\* of calls[lo..hi], one after the other
RECURSIVE add_templs(_, _, _, _)
add_templs(td, calls, lo, hi) ==
    IF lo > hi THEN td
    ELSE IF lo = hi THEN add_templ(td, calls[lo][1], calls[lo][2], calls[lo][3])
    ELSE LET rest(td2) == add_templs(td2, calls, ((lo + hi) \div 2) + 1, hi)
         IN  AndThen(add_templs(td, calls, lo, (lo + hi) \div 2), rest)

\* the package declarations of a register: dt of wb_reg.gen_vhdl
reg_package(r) ==
    LET tname == "t_" \o r.name
        fs == r.fields
    IN  (IF Len(fs) = 0
         THEN <<"subtype " \o tname \o " is " \o r.type \o "(31 downto 0);\n">>
         ELSE <<"type " \o tname \o " is record\n">>
              \o [k \in 1..Len(fs) |-> "  " \o fs[k].name \o ":" \o fs[k].type \o "("
                                         \o str(fs[k].size - 1) \o " downto 0);\n"]
              \o <<"end record;\n", "\n",
                   "function stlv2" \o tname \o "(x : std_logic_vector) return "
                       \o tname \o ";\n",
                   "function " \o tname \o "2stlv(x : " \o tname
                       \o ") return std_logic_vector;\n">>)
        \o (IF r.size > 1
            THEN <<"type " \o tname \o "_array is array(0 to " \o str(r.size - 1)
                      \o ") of " \o tname \o ";\n">>
            ELSE <<>>)

\* the package body of a register: dtb of wb_reg.gen_vhdl
reg_package_body(r) ==
    LET tname == "t_" \o r.name
        fs == r.fields
    IN  IF Len(fs) = 0 THEN <<>>
        ELSE <<"function stlv2" \o tname \o "(x : std_logic_vector) return "
                   \o tname \o " is\n",
               "variable res : " \o tname \o ";\n",
               "begin\n">>
             \o [k \in 1..Len(fs) |-> "  res." \o fs[k].name \o " := " \o fs[k].type \o "(x("
                                        \o str(fs[k].msb) \o " downto " \o str(fs[k].lsb)
                                        \o "));\n"]
             \o <<"  return res;\n",
                  "end stlv2" \o tname \o ";\n", "\n",
                  "function " \o tname \o "2stlv(x : " \o tname
                      \o ") return std_logic_vector is\n",
                  "variable res : std_logic_vector;\n",
                  "begin\n",
                  "  res := (others => '0');\n">>
             \o [k \in 1..Len(fs) |-> "  res(" \o str(fs[k].msb) \o " downto "
                                        \o str(fs[k].lsb) \o ") := std_logic_vector(x."
                                        \o fs[k].name \o "));\n"]
             \o <<"  return res;\n",
                  "end " \o tname \o "2stlv;\n", "\n">>

\* the entity port of a register
reg_port(r) ==
    LET sfx  == IF r.regtype = "creg" THEN "_o" ELSE "_i"
        sdir == IF r.regtype = "creg" THEN "out " ELSE "in "
    IN  <<r.name \o sfx \o " : " \o sdir \o " t_" \o r.name
            \o (IF r.size = 1 THEN "" ELSE "_array") \o ";\n">>

\* the case arm of element i of a register
reg_access(r, i) ==
    LET ind       == IF r.size > 1 THEN "(" \o str(i) \o ")" ELSE ""
        conv_fun  == IF Len(r.fields) = 0 THEN "std_logic_vector"
                     ELSE "t_" \o r.name \o "2stlv"
        iconv_fun == IF Len(r.fields) = 0 THEN r.type ELSE "stlv2t_" \o r.name
    IN  <<"when \"" \o format032b(r.base + i) \o "\" => -- " \o hex(r.base + i) \o "\n">>
        \o (IF r.regtype = "sreg"
            THEN <<"   int_regs_wb_s_o.dat <= " \o conv_fun \o "(" \o r.name \o "_i"
                      \o ind \o ");\n">>
            ELSE <<"   int_regs_wb_s_o.dat <= " \o conv_fun \o "(int_" \o r.name \o "_o"
                      \o ind \o ");\n">>)
        \o (IF r.regtype = "creg"
            THEN <<"   if int_regs_wb_s_i.we = '1' then\n",
                   "     int_" \o r.name \o "_o" \o ind \o ") <= " \o iconv_fun
                       \o "(int_regs_wb_s_i.dat);\n",
                   "   end if;\n">>
            ELSE <<>>)

\* the calls parent.add_templ(key, value, indent) of wb_reg.gen_vhdl, in
\* order: the package text, the package body text, the port, and one case
\* arm per register of the vector
reg_calls(r) ==
    << <<"p_package", reg_package(r), 0>>,
       <<"p_package_body", reg_package_body(r), 0>>,
       <<"signal_ports", reg_port(r), 4>> >>
    \o [i \in 1..r.size |-> <<"register_access", reg_access(r, i - 1), 10>>]

\* the add_templ calls of the loop "for reg in self.regs: reg.gen_vhdl(self)",
\* from register k on
RECURSIVE regs_calls(_, _)
regs_calls(regs, k) ==
    IF k > Len(regs) THEN <<>> ELSE reg_calls(regs[k]) \o regs_calls(regs, k + 1)

-----------------------------------------------------------------------------
(* The two templates (wb_block.py:15-31 and 35-123) as sequences of literal *)
(* text and {key} replacement fields.                                       *)

templ_pkg ==
    << [lit |-> "library ieee;\n\nuse ieee.std_logic_1164.all;\n"
                \o "use ieee.numeric_std.all;\n\nlibrary work;\n"
                \o "use work.wishbone_pkg.all;\n\n"
                \o "package "],
      [key |-> "p_entity"],
      [lit |-> "_pkg is\n"],
      [key |-> "p_package"],
      [lit |-> "\n"
                \o "end "],
      [key |-> "p_entity"],
      [lit |-> "_pkg\n\n"
                \o "package_body "],
      [key |-> "p_entity"],
      [lit |-> "_pkg is\n"],
      [key |-> "p_package_body"],
      [lit |-> "\n"
                \o "end "],
      [key |-> "p_entity"],
      [lit |-> "_pkg\n"] >>

templ_wb ==
    << [lit |-> "--- This code is automatically generated by the addrgen_wb.py tool\n--- Please don't edit it manaully, unless you really have to do it.\n\n"
                \o "library ieee;\nuse ieee.std_logic_1164.all;\nuse ieee.numeric_std.all;\n"
                \o "library work;\nuse work.wishbone_pkg.all;\n"
                \o "use work."],
      [key |-> "p_entity"],
      [lit |-> "_pkg.all\n\n"
                \o "entity "],
      [key |-> "p_entity"],
      [lit |-> " is\n  generic (\n    base_addr : unsigned(31 downto 0);\n"
                \o "    valid_bits : integer := "],
      [key |-> "valid_bits"],
      [lit |-> ";\n  );\n  port (\n"
                \o "    rst_n_i : in std_logic;\n    clk_sys_i : in std_logic\n    slave_i : t_wishbone_slave_in;\n"
                \o "    slave_o : t_wishbone_slave_out;\n"],
      [key |-> "subblk_busses"],
      [lit |-> "\n"],
      [key |-> "signal_ports"],
      [lit |-> "\n    );\n\n"
                \o "end wb_test_top;\n\n"
                \o "architecture gener of "],
      [key |-> "p_entity"],
      [lit |-> " is\n"],
      [key |-> "signal_decls"],
      [lit |-> "\n  -- Internal WB declaration\n  signal int_regs_wb_s_o : t_wishbone_slave_out;\n"
                \o "  signal int_regs_wb_s_i : t_wishbone_slave_in;\n"
                \o "  signal int_addr : std_logic_vector("],
      [key |-> "valid_bits"],
      [lit |-> "-1 downto 0);\n"
                \o "  signal wb_s_out : t_wishbone_slave_out_array(0 to "],
      [key |-> "nof_subblks"],
      [lit |-> ");\n"
                \o "  signal wb_s_in : t_wishbone_slave_in_array(0 to "],
      [key |-> "nof_subblks"],
      [lit |-> ");\n\n  -- Constants\n"
                \o "  constant block_id_addr : std_logic_vector("],
      [key |-> "valid_bits"],
      [lit |-> "-1 downto 0) := (others => '0');\n"
                \o "  constant block_ver_addr : std_logic_vector("],
      [key |-> "valid_bits"],
      [lit |-> "-1 downto 0) := (0=>'1', 'others => '0');\n\nbegin\n"
                \o "  int_addr <= int_regs_wb_s_i.adr("],
      [key |-> "valid_bits"],
      [lit |-> "-1 downto 0);\n\n-- Main crossbar \n"
                \o "  xwb_crossbar_1: entity work.xwb_crossbar\n  generic map (\n     g_num_masters => 1,\n"
                \o "     g_num_slaves  => 1+nof_subblks,\n"
                \o "     g_registered  => "],
      [key |-> "p_registered"],
      [lit |-> ",\n"
                \o "     g_address     => "],
      [key |-> "p_addresses"],
      [lit |-> ",\n"
                \o "     g_mask        => "],
      [key |-> "p_masks"],
      [lit |-> ")\n  port map (\n     clk_sys_i => clk_sys_i,\n"
                \o "     rst_n_i   => rst_n_i,\n     slave_i   => slave_i,\n     slave_o   => slave_o,\n"
                \o "     master_i  => wb_s_out,\n     master_o  => wb_s_in,\n    sdb_sel_o => open);\n"
                \o "\n-- Process for register access\n  process(clk_sys_i)\n"
                \o "  begin\n    if rising_edge(clk_sys_i) then\n      if rst_n_i = '0' then\n"
                \o "        -- Reset of the core\n      else\n        -- Normal operation\n"
                \o "        if (int_regs_wb_s_i.cyc = '1') and (int_regs_wb_s_i.stb = '1') then\n          -- Access, now we handle consecutive registers\n          case int_addr is\n"],
      [key |-> "register_access"],
      [lit |-> "\n          when block_id_addr =>\n"
                \o "             int_regs_wb_s_o.dat <= "],
      [key |-> "block_id"],
      [lit |-> ";\n             int_regs__wb_s_o.ack <= '1';\n          when block_ver_addr =>\n"
                \o "             int_regs_wb_s_o.dat <= "],
      [key |-> "block_ver"],
      [lit |-> ";\n             int_regs_wb_s_o.ack <= '1';\n          when others =>\n"
                \o "             int_regs_wb_s_o.dat <= x\"A5A5A5A5\";\n             int_regs_wb_s_o.ack <= '1';\n          end case;\n"
                \o "        end if;\n      end if;\n    end if;\n"
                \o "  end process;\n"],
      [key |-> "cont_assigns"],
      [lit |-> "\nend architecture;\n"] >>

\* the text of the parts lo..hi of a template under the dictionary td
RECURSIVE format_parts(_, _, _, _)
format_parts(templ, td, lo, hi) ==
    IF lo > hi THEN ""
    ELSE IF lo = hi
    THEN (IF "lit" \in DOMAIN templ[lo] THEN templ[lo].lit ELSE td[templ[lo].key])
    ELSE LET mid == (lo + hi) \div 2
         IN  format_parts(templ, td, lo, mid) \o format_parts(templ, td, mid + 1, hi)

\* templ.format(**td): KeyError when td lacks a replacement field of templ
format(templ, td) ==
    IF \E k \in 1..Len(templ) : "key" \in DOMAIN templ[k] /\ templ[k].key \notin DOMAIN td
    THEN [exc |-> "KeyError", val |-> ""]
    ELSE [exc |-> "none", val |-> format_parts(templ, td, 1, Len(templ))]

\* blk.add_templ(templ_key, value, indent) inside the emitter state g
g_add_templ(g, templ_key, value, indent) ==
    [g EXCEPT !.blk.templ_dict = add_templ(@, templ_key, value, indent)]

\* base += ar.obj.addr_size
window_next(base, obj) == base + obj.addr_size

\* the loop "for i in range(0,ar.reps)" of gen_vhdl for the area ar
RECURSIVE conn_vector(_, _, _, _, _, _)
conn_vector(g, bs, ar, i, base, nport) ==
    IF i >= ar.reps THEN g
    ELSE conn_vector(
             g_add_templ([g EXCEPT !.ar_addresses = Append(@, base),
                                   !.ar_adr_bits = Append(@, bs[ar.obj].adr_bits)],
                         "cont_assigns",
                         <<ar.name \o "_wb_s_i(" \o str(i) \o ")  <= wb_s_o("
                             \o str(nport) \o ");\n">>, 4),
             bs, ar, i + 1, window_next(base, bs[ar.obj]), nport + 1)

\* the body of the loop "for ar in self.areas" of gen_vhdl for area k
conn_area(g, bs, k) ==
    LET ar == g.blk.areas[k]
    IN  IF ar.reps = 1
        THEN LET g1 == [g EXCEPT !.blk.areas[k] =
                                    SetAttr(SetAttr(ar, "first_port", g.n_ports),
                                            "last_port", g.n_ports),
                                 !.n_ports = @ + 1,
                                 !.ar_addresses = Append(@, ar.adr)]
                 busses(g2) ==
                     IF ar.obj # "None"
                     THEN IF ar.name = "None" THEN [g2 EXCEPT !.exc = "TypeError"]
                          ELSE g_add_templ(g2, "subblk_busses",
                                   <<ar.name \o "_wb_s_o : out t_wishbone_slave_out;\n",
                                     ar.name \o "_wb_s_i : in t_wishbone_slave_in;\n">>, 4)
                     ELSE g2
                 assigns(g3) ==
                     IF g3.exc # "none" THEN g3
                     ELSE g_add_templ(g3, "cont_assigns",
                              <<"wb_s_o(" \o str(g.n_ports) \o ") <= " \o ar.name
                                    \o "_wb_s_i;\n",
                                ar.name \o "_wb_s_i  <= wb_s_o(" \o str(g.n_ports)
                                    \o ");\n">>, 4)
             IN  IF ~HasAttr(ar, "adr_bits") THEN [g1 EXCEPT !.exc = "AttributeError"]
                 ELSE assigns(busses([g1 EXCEPT !.ar_adr_bits = Append(@, ar.adr_bits)]))
        ELSE LET first == g.n_ports
                 last  == g.n_ports + ar.reps - 1
                 g1 == [g EXCEPT !.blk.areas[k] =
                                    SetAttr(SetAttr(ar, "first_port", first),
                                            "last_port", last),
                                 !.n_ports = @ + ar.reps]
             IN  IF ar.name = "None" THEN [g1 EXCEPT !.exc = "TypeError"]
                 ELSE conn_vector(
                          g_add_templ(g1, "subblk_busses",
                              <<ar.name \o "_wb_s_o : out t_wishbone_slave_out_array("
                                    \o str(first) \o " to " \o str(last) \o ");\n",
                                ar.name \o "_wb_s_i : in t_wishbone_slave_in_array("
                                    \o str(first) \o " to " \o str(last) \o ");\n">>, 4),
                          bs, ar, 0, ar.adr, first)

\* the loop "for ar in self.areas" of gen_vhdl for the areas lo..hi; an
\* exception ends it
RECURSIVE conn_areas(_, _, _, _)
conn_areas(g, bs, lo, hi) ==
    IF lo > hi \/ g.exc # "none" THEN g
    ELSE IF lo = hi THEN conn_area(g, bs, lo)
    ELSE LET rest(g2) == conn_areas(g2, bs, ((lo + hi) \div 2) + 1, hi)
         IN  AndThen(conn_areas(g, bs, lo, (lo + hi) \div 2), rest)

\* the entries lo..hi of a vector of addresses or of masks, a comma before
\* every entry but the first
RECURSIVE port_entries(_, _, _)
port_entries(values, lo, hi) ==
    IF lo > hi THEN ""
    ELSE IF lo = hi
    THEN (IF lo > 1 THEN "," ELSE "") \o "\"" \o format032b(values[lo]) \o "\""
    ELSE LET mid == (lo + hi) \div 2
         IN  port_entries(values, lo, mid) \o port_entries(values, mid + 1, hi)

port_vector(values) == "(" \o port_entries(values, 1, Len(values)) \o ");"

adrs_vector(g) == port_vector(g.ar_addresses)
masks_vector(g) ==
    port_vector([i \in 1..Len(g.ar_adr_bits) |-> Pow2(g.ar_adr_bits[i]) - 1])

\* wb_block.py:455-462
fill_rest(g) ==
    LET filled == [g EXCEPT !.blk.templ_dict = add_templs(@,
                      << <<"block_id", <<"x\"00001234\"">>, 0>>,
                         <<"block_ver", <<"x\"12344321\"">>, 0>>,
                         <<"p_addresses", <<adrs_vector(g)>>, 0>>,
                         <<"p_masks", <<masks_vector(g)>>, 0>>,
                         <<"p_registered", <<"false">>, 0>>,
                         <<"nof_subblks", <<str(g.n_ports)>>, 0>>,
                         <<"p_entity", <<g.blk.name \o "_wb">>, 0>> >>, 1, 7)]
        valid_bits(g7) ==
            IF ~HasAttr(g7.blk, "adr_bits") THEN [g7 EXCEPT !.exc = "AttributeError"]
            ELSE g_add_templ(g7, "valid_bits", <<str(g7.blk.adr_bits)>>, 0)
    IN  valid_bits(filled)

\* wb_block.py:465-468: each file is opened for writing (and emptied) before
\* its text is formatted
write_files(g) ==
    LET wb  == format(templ_wb, g.blk.templ_dict)
        pkg == format(templ_pkg, g.blk.templ_dict)
        wb_name  == g.blk.name \o "_wb.vhd"
        pkg_name == g.blk.name \o "_pkg.vhd"
    IN  IF wb.exc # "none"
        THEN [g EXCEPT !.exc = wb.exc, !.written = (wb_name :> "")]
        ELSE IF pkg.exc # "none"
        THEN [g EXCEPT !.exc = pkg.exc, !.written = (wb_name :> wb.val) @@ (pkg_name :> "")]
        ELSE [g EXCEPT !.written = (wb_name :> wb.val) @@ (pkg_name :> pkg.val)]

\* wb_block.gen_vhdl of the block self of the registry bs.  The result holds
\* the block as the call leaves it, the exception raised, the local lists
\* ar_addresses and ar_adr_bits, and the files written.
gen_vhdl(bs, self) ==
    LET apply(td, calls) == add_templs(td, calls, 1, Len(calls))
        start == [blk |-> [bs[self] EXCEPT !.templ_dict =
                              apply(@, << <<"p_package", <<>>, 0>>,
                                          <<"p_package_body", <<>>, 0>>,
                                          <<"signal_decls", <<>>, 0>>,
                                          <<"register_access", <<>>, 0>>,
                                          <<"subblk_busses", <<>>, 0>> >>
                                       \o regs_calls(bs[self].regs, 1))],
                  exc |-> "none", n_ports |-> 0,
                  ar_addresses |-> <<>>, ar_adr_bits |-> <<>>,
                  written |-> [f \in {} |-> ""]]
        areas(g) == conn_areas(g, bs, 1, Len(g.blk.areas))
        finish(g) == IF g.exc # "none" THEN g ELSE write_files(g)
        rest(g) == IF g.exc # "none" THEN g ELSE AndThen(fill_rest(g), finish)
    IN  AndThen(AndThen(start, areas), rest)

MaxEmit == 2

Emissions == Len(emitted["top"]) + Len(emitted["mid"]) + Len(emitted["leaf"])

\* blocks[b].gen_vhdl()
GenVhdl(b) ==
    /\ b \in DOMAIN blocks
    /\ Emissions < MaxEmit
    /\ \E g \in {gen_vhdl(blocks, b)} :
           /\ blocks' = [blocks EXCEPT ![b] = g.blk]
           /\ exc' = g.exc
           /\ files' = g.written @@ files
           /\ emitted' = [emitted EXCEPT ![b] =
                             Append(@, [exc |-> g.exc, requests |-> requests,
                                        nr |-> Emissions + 1,
                                        ar_addresses |-> g.ar_addresses,
                                        ar_adr_bits |-> g.ar_adr_bits,
                                        templ_dict |-> g.blk.templ_dict,
                                        written |-> g.written])]
    /\ op' = <<"gen_vhdl", b>>
    /\ UNCHANGED <<requests, n_analyze, reg, x_rec, x_stlv, y_rec, last_calls, docs, incl>>

\* the documents of the emission runs: top with its six register addresses,
\* mid as in the analysis runs, leaf with a register with fields and a
\* register vector
EmitDocuments ==
    {[top |-> t, mid |-> m, leaf |-> l] :
        t \in {e \in BlockEls("top") : \E k \in 1..Len(e.children) : IsRegEl(e.children[k])},
        m \in BlockEls("mid"),
        l \in {BlockEl("leaf", <<RegEl("creg", "ctrl", <<FieldEl("en", <<1>>),
                                                         FieldEl("mode", <<3>>)>>),
                                 RegVecEl("sreg", "status", <<2>>, <<>>)>>)}}

InitEmit ==
    /\ blocks \in {Registry(doc) : doc \in EmitDocuments}
    /\ Idle

NextEmit ==
    \/ \E b \in NameSet : Analyze(b)
    \/ \E b \in NameSet : GenVhdl(b)

SpecEmit == InitEmit /\ [][NextEmit]_vars

-----------------------------------------------------------------------------
(* Properties of the emitter                                                *)

LastEmission(n) == emitted[n][Len(emitted[n])]

\* the entries of the address vector of the emission e that belong to the
\* area ar (its ports first_port..last_port)
Window(e, ar, i) == e.ar_addresses[ar.first_port + 1 + i]

WindowsOk(e, ar, S) ==
    /\ ar.last_port - ar.first_port + 1 = ar.reps
    /\ \A i \in 0..(ar.reps - 1) :
           /\ Window(e, ar, i) = ar.adr + i * S
           /\ Window(e, ar, i) % S = 0
           /\ ar.adr <= Window(e, ar, i)
           /\ Window(e, ar, i) + S <= ar.adr + RoundedSize(ar.size)
    /\ \A i, j \in 0..(ar.reps - 1) :
           i < j => Window(e, ar, i) + S <= Window(e, ar, j)

RepeatedAreasOk(n) ==
    \A k \in 1..Len(blocks[n].areas) :
        LET ar == blocks[n].areas[k]
        IN  ar.reps > 1 => WindowsOk(LastEmission(n), ar, blocks[ar.obj].addr_size)

\* C8: after a successful gen_vhdl() of a block, for each of its areas that
\* refers to a block type with reps > 1 the address vector holds the reps
\* entries ar.adr + i * S, S the rounded size of the referenced block; each
\* entry is a multiple of S, the windows [entry, entry + S) are pairwise
\* disjoint and lie inside the area [ar.adr, ar.adr + rounded area size).
C8_RepeatedWindows ==
    \A n \in NameSet :
        (op = <<"gen_vhdl", n>> /\ exc = "none") => RepeatedAreasOk(n)

\* the same statement for the runs in which no block was analyzed twice
C8_WindowsWhenAnalyzedOnce ==
    (\A m \in NameSet : n_analyze[m] <= 1) => C8_RepeatedWindows

C8_WindowsWitness ==
    /\ op = <<"gen_vhdl", "top">> /\ exc = "none"
    /\ \A m \in NameSet : n_analyze[m] <= 1
    /\ \E k \in 1..Len(blocks["top"].areas) : blocks["top"].areas[k].reps = 3

\* C9: when gen_vhdl() of an analyzed block succeeds and the next operation
\* on the registry is gen_vhdl() of the same block again, the second call
\* writes the same interface-module and package text and uses the same
\* template values as the first.
C9_EmissionDeterminism ==
    \A n \in NameSet :
        (op = <<"gen_vhdl", n>> /\ Len(emitted[n]) >= 2) =>
            LET second == emitted[n][Len(emitted[n])]
                first  == emitted[n][Len(emitted[n]) - 1]
            IN  (/\ first.exc = "none"
                 /\ second.nr = first.nr + 1
                 /\ second.requests = first.requests)
                => /\ second.exc = "none"
                   /\ second.written = first.written
                   /\ second.templ_dict = first.templ_dict

-----------------------------------------------------------------------------
(* include.py: handle_includes.  The contents of a file is a sequence of    *)
(* items: a character [ch |-> c], or an include directive (one match of     *)
(* the pattern P1) [include |-> fname].  Inclusion paths are file names     *)
(* relative to the one directory that holds all the documents, so that      *)
(* base_dir + '/' + file_path names the file docs[file_path].               *)

Ch(c) == [ch |-> c]
Include(fname) == [include |-> fname]
IsInclude(item) == "include" \in DOMAIN item

\* LineLocation(start, end, fpath)
LineLocation(start, end, fpath) == [start |-> start, end |-> end, fpath |-> fpath]

\* LineLocation.adjust(shift)
adjust(l, shift) == [l EXCEPT !.start = @ + shift, !.end = @ + shift]

\* P1.finditer(contents): the positions of the include directives, ascending
RECURSIVE finditer(_, _)
finditer(contents, from) ==
    IF from > Len(contents) THEN <<>>
    ELSE (IF IsInclude(contents[from]) THEN <<from>> ELSE <<>>)
         \o finditer(contents, from + 1)

\* len(part.split('\n')) - 1: the number of newline characters of part
newlines(part) == Cardinality({i \in 1..Len(part) : part[i] = Ch("\n")})

\* the text of a part without include directives, as one string
RECURSIVE text(_, _)
text(part, from) ==
    IF from > Len(part) THEN "" ELSE part[from].ch \o text(part, from + 1)

\* the local variable r of handle_includes before the first "for r in rlines"
\* step of the call
Unbound == [start |-> -1, end |-> -1, fpath |-> "unbound"]

\* "for r in rlines: r.adjust(start_line)"
adjust_all(rlines, start_line) == [i \in 1..Len(rlines) |-> adjust(rlines[i], start_line)]

\* the value of r after "for r in rlines": the last record, or what r was
\* before the loop when rlines is empty
r_after(rlines, r) == IF Len(rlines) > 0 THEN rlines[Len(rlines)] ELSE r

\* handle_includes(file_path); fsys is the file system.  incl_loop is the
\* loop over the include directives from the k-th match on; st holds the
\* local variables start_pos, start_line, res (the chunks joined), lines, r
\* and exc, the exception raised ("none": none).
RECURSIVE handle_includes(_, _)
RECURSIVE incl_loop(_, _, _, _, _)
handle_includes(fsys, file_path) ==
    IF file_path \notin DOMAIN fsys
    THEN [exc |-> "FileNotFoundError", res |-> "", lines |-> <<>>]
    ELSE LET contents == fsys[file_path]
             final(st) ==
                 LET part == SubSeq(contents, st.start_pos, Len(contents))
                 IN  IF st.exc # "none" THEN [exc |-> st.exc, res |-> "", lines |-> <<>>]
                     ELSE IF Len(part) > 0
                     THEN [exc |-> "none",
                           res |-> st.res \o text(part, 1),
                           lines |-> Append(st.lines,
                                            LineLocation(st.start_line,
                                                         st.start_line + newlines(part),
                                                         file_path))]
                     ELSE [exc |-> "none", res |-> st.res, lines |-> st.lines]
         IN  final(incl_loop(fsys, file_path, finditer(contents, 1),
                             [start_pos |-> 1, start_line |-> 0, res |-> "",
                              lines |-> <<>>, r |-> Unbound, exc |-> "none"],
                             1))

incl_loop(fsys, file_path, matches, st, k) ==
    IF k > Len(matches) \/ st.exc # "none" THEN st
    ELSE LET contents == fsys[file_path]
             part == SubSeq(contents, st.start_pos, matches[k] - 1)
             end_line == st.start_line + newlines(part)
             included(sub) ==
                 IF sub.exc # "none" THEN [st EXCEPT !.exc = sub.exc]
                 ELSE LET after(rlines, r) ==
                              IF r = Unbound THEN [st EXCEPT !.exc = "UnboundLocalError"]
                              ELSE [start_pos |-> matches[k] + 1,
                                    start_line |-> r.end,
                                    res |-> st.res \o text(part, 1) \o sub.res,
                                    lines |-> Append(st.lines,
                                                     LineLocation(st.start_line, end_line,
                                                                  file_path))
                                              \o rlines,
                                    r |-> r, exc |-> "none"]
                          adjusted(rlines) == after(rlines, r_after(rlines, st.r))
                      IN  adjusted(adjust_all(sub.lines, end_line))
             next(st2) == incl_loop(fsys, file_path, matches, st2, k + 1)
         IN  next(included(handle_includes(fsys, contents[matches[k]].include)))

\* the documents of the include runs: a.xml may include b.xml and c.xml,
\* b.xml may include c.xml, c.xml includes nothing; every file may be empty
FileNames == {"a.xml", "b.xml", "c.xml"}

MaxItems == 4

\* the sequences of at most n items of the set Items
RECURSIVE ItemLists(_, _)
ItemLists(Items, n) ==
    IF n = 0 THEN {<<>>}
    ELSE LET shorter == ItemLists(Items, n - 1)
         IN  shorter \cup {Append(s, i) : s \in {x \in shorter : Len(x) = n - 1}, i \in Items}

RootContents == ItemLists({Ch("x"), Ch("\n"), Include("b.xml"), Include("c.xml")}, MaxItems)

MidContents ==
    { <<>>,
      <<Ch("u"), Ch("\n")>>,
      <<Include("c.xml")>>,
      <<Include("c.xml"), Include("c.xml")>>,
      <<Ch("u"), Ch("\n"), Include("c.xml"), Ch("v"), Ch("\n")>> }

LeafContents ==
    { <<>>,
      <<Ch("p")>>,
      <<Ch("p"), Ch("\n")>>,
      <<Ch("p"), Ch("\n"), Ch("q"), Ch("\n")>> }

FileSystems ==
    {("a.xml" :> a) @@ ("b.xml" :> b) @@ ("c.xml" :> c) :
        a \in RootContents, b \in MidContents, c \in LeafContents}

InitIncl ==
    /\ blocks = [n \in {} |-> <<>>]
    /\ Quiet
    /\ docs \in FileSystems

\* incl = handle_includes(f)
HandleIncludes(f) ==
    /\ f \in DOMAIN docs
    /\ \E result \in {handle_includes(docs, f)} :
           /\ incl' = result
           /\ exc' = result.exc
    /\ op' = <<"handle_includes", f>>
    /\ UNCHANGED <<blocks, requests, n_analyze, emitted, files, reg, x_rec, x_stlv, y_rec,
                   last_calls, docs>>

NextIncl == \E f \in FileNames : HandleIncludes(f)

SpecIncl == InitIncl /\ [][NextIncl]_vars

-----------------------------------------------------------------------------
(* Properties of the include resolver                                       *)

\* the provenance list covers the output from line 0 on without a gap:
\* every record has start <= end and starts where the one before it ended
Contiguous(lines) ==
    /\ Len(lines) > 0 => lines[1].start = 0
    /\ \A i \in 1..Len(lines) : lines[i].start <= lines[i].end
    /\ \A i \in 2..Len(lines) : lines[i].start = lines[i - 1].end

\* the document tree of file f holds an include directive naming an empty file
RECURSIVE IncludesEmptyFile(_, _)
IncludesEmptyFile(fsys, f) ==
    \E i \in 1..Len(fsys[f]) :
        /\ IsInclude(fsys[f][i])
        /\ \/ Len(fsys[fsys[f][i].include]) = 0
           \/ IncludesEmptyFile(fsys, fsys[f][i].include)

\* C11: handle_includes of a document tree without inclusion cycles, also
\* one in which an included file is empty or an include directive follows
\* another, returns (raises nothing) and its provenance list is ordered and
\* contiguous: it starts at output line 0, every record has start <= end,
\* and every later record starts where the preceding record ended.
C11_Provenance ==
    op[1] = "handle_includes" => (exc = "none" /\ Contiguous(incl.lines))

\* the part of the statement about the calls that return
C11_ContiguousWhenReturned ==
    (op[1] = "handle_includes" /\ exc = "none") => Contiguous(incl.lines)

\* the same statement for the document trees that include no empty file
C11_ProvenanceNoEmptyInclude ==
    (op[1] = "handle_includes" /\ ~IncludesEmptyFile(docs, op[2]))
        => (exc = "none" /\ Contiguous(incl.lines))

C11_NoEmptyIncludeWitness ==
    /\ op = <<"handle_includes", "a.xml">>
    /\ ~IncludesEmptyFile(docs, "a.xml")
    /\ exc = "none"
    /\ \E i \in 2..Len(incl.lines) :
           /\ incl.lines[i].fpath = "c.xml" /\ incl.lines[i - 1].fpath = "b.xml"
           /\ incl.lines[i].start > 0

-----------------------------------------------------------------------------
(* Registries with reference cycles                                         *)

MaxRefs == 1

\* the sequences of at most n <subblock> children, each referring to any
\* block type of the document, the block's own type included
RECURSIVE RefLists(_)
RefLists(n) ==
    IF n = 0 THEN {<<>>}
    ELSE LET shorter == RefLists(n - 1)
         IN  shorter \cup {Append(s, SubEl(Len(s) + 1, t, <<>>)) :
                             s \in {x \in shorter : Len(x) = n - 1}, t \in NameSet}

CyclicEls(n) == {BlockEl(n, <<RegEl("creg", "ctrl", <<>>)>> \o subs) : subs \in RefLists(MaxRefs)}

CyclicDocuments ==
    {[top |-> t, mid |-> m, leaf |-> l] :
        t \in CyclicEls("top"), m \in CyclicEls("mid"), l \in CyclicEls("leaf")}

InitCyclic ==
    /\ blocks \in {Registry(doc) : doc \in CyclicDocuments}
    /\ Idle

SpecCyclic == InitCyclic /\ [][Next]_vars

\* the block types the block n refers to
Refs(n) == {blocks[n].subblks[k].type : k \in 1..Len(blocks[n].subblks)}

\* the block types reached from n over one or more references
RECURSIVE ReachedIn(_, _)
ReachedIn(n, steps) ==
    IF steps = 0 THEN {}
    ELSE Refs(n) \cup UNION {ReachedIn(m, steps - 1) : m \in Refs(n)}

OnCycle(n) == n \in ReachedIn(n, Cardinality(DOMAIN blocks))

\* C12: every analyze() request ends, by returning or by raising, and
\* enters analyze() at most once per block type of the registry, also when a
\* block refers to its own type or block types refer to each other in a
\* cycle; a block on a reference cycle never gets a total address size.
C12_AnalysisTerminates ==
    /\ op[1] = "analyze" =>
           /\ exc \in {"none", "AttributeError"}
           /\ Len(last_calls) <= Cardinality(DOMAIN blocks)
           /\ \A n \in DOMAIN blocks : Count(last_calls, n) <= 1
    /\ \A n \in DOMAIN blocks : OnCycle(n) => ~HasAttr(blocks[n], "addr_size")

\* a request on a cycle of three block types: each is entered once, then the
\* request raises
C12_Witness ==
    /\ op = <<"analyze", "top">>
    /\ exc = "AttributeError"
    /\ last_calls = <<"top", "mid", "leaf">>
    /\ \A n \in NameSet : OnCycle(n)

\* a block that refers to its own type: one call, which raises
C12_SelfReferenceWitness ==
    /\ op = <<"analyze", "leaf">>
    /\ "leaf" \in Refs("leaf")
    /\ exc = "AttributeError"
    /\ last_calls = <<"leaf">>

====
